---- MODULE Spec2Model ----
(***************************************************************************)
(* A model of arm_gemm::GemmHybridQuantized<strategy, To, Tr>               *)
(* (src/core/NEON/kernels/arm_gemm/gemm_hybrid_quantized.hpp): the         *)
(* blocking planner, the 4-D window, the weight packer and the execute     *)
(* loop, with the scratch workspace and the output tensor as memories.     *)
(*                                                                         *)
(* Three specifications share the variables and the operators:             *)
(*   Spec      the life cycle of one engine, calls made one after another  *)
(*   SpecPlan  constructor, packer and one execute over a wide set of      *)
(*             problem shapes, tiles and configurations                    *)
(*   SpecMT    worker threads of a scheduler running execute concurrently  *)
(***************************************************************************)
EXTENDS Integers, Sequences, FiniteSets, TLC

\* ------------------------------------------------------------------ bounds

\* SpecPlan: problem shapes 1..MaxM x 1..MaxN x 1..MaxK with 1..MaxMulti
\* multis.
MaxM == 2
MaxN == 4
MaxK == 3
MaxMulti == 2
\* Spec: a work range may end up to MaxOver positions past the window.
MaxOver == 1
\* SpecMT: worker threads of the scheduler.
MaxThreads == 2

\* ------------------------------------------------------- program constants

\* nullptr; a pointer is a buffer of the caller and a byte offset into it
NULL == [buf |-> "nullptr", off |-> 0]
\* sizeof(Toi), the operand type of the quantized hybrid kernels (int8/uint8)
SizeofToi == 1
\* sizeof(Tri), the 32-bit accumulator type of the kernels
SizeofTri == 4
\* sizeof(int32_t), one column sum
SizeofInt32 == 4

\* ----------------------------------------------------------------- helpers

\* utils.hpp: iceildiv(a, b) = (a + b - 1) / b
iceildiv(a, b) == (a + b - 1) \div b

\* utils.hpp: roundup(a, b): a rounded up to a multiple of b
roundup(a, b) == LET rem == a % b IN IF rem # 0 THEN a + b - rem ELSE a

\* F applied to the value of v, v evaluated once (a local variable of a loop)
Local(v, F(_)) == CHOOSE r \in {F(x) : x \in {v}} : TRUE

Min(a, b) == IF a < b THEN a ELSE b
Max(a, b) == IF a > b THEN a ELSE b

\* ------------------------------------------------------------------- state

VARIABLES
    args,            \* the GemmArgs the engine is constructed from
    strategy,        \* the microkernel: out_width, out_height, k_unroll
    status,          \* "raw" (not constructed), "ready", "running" (SpecMT),
                     \* "done" (execute returned), "crashed" (fault in the kernel),
                     \* "assert_B_transposed" (line 184), "assert_not_transposed" (line 279)
    _k_block,        \* blocking
    _n_block,
    _Mround,
    _window_range,   \* NDRange<4>: the four sizes
    _B_transposed,   \* pointer to the packed panels, NULL until packed
    col_bias,        \* pointer to the column sums
    _qp,             \* Requantize32
    _nthreads,
    g_arrays,        \* GemmCommon::_gemm_arrays: workspace pointer, C strides
    mem,             \* contents of the caller's packing buffers
    scratch,         \* contents of the workspace: address -> accumulator
    Cmem,            \* contents of the output tensor: element -> value
    log,             \* the kernel invocations of the execute calls so far
    thr,             \* SpecMT: each worker's position in execute
    pending          \* SpecMT: sub-ranges of the window not yet handed out

vars == << args, strategy, status, _k_block, _n_block, _Mround, _window_range,
           _B_transposed, col_bias, _qp, _nthreads, g_arrays, mem, scratch,
           Cmem, log, thr, pending >>

\* strategy::out_width(), out_height(), k_unroll()
out_width == strategy.out_width
out_height == strategy.out_height
k_unroll == strategy.k_unroll

\* ------------------------------------------------------- blocking planner

\* compute_k_block: the unconditional return of line 78; the heuristic after
\* it is unreachable.
compute_k_block_cfg(a) ==
    IF a.cfg.present /\ a.cfg.inner_block_size # 0
    THEN a.cfg.inner_block_size
    ELSE a.Ksize

compute_k_block(a) == a.Ksize

compute_n_block_roundup(a) ==
    IF a.cfg.present /\ a.cfg.outer_block_size # 0
    THEN roundup(a.cfg.outer_block_size, out_width)
    ELSE LET k_block == compute_k_block(a)
             scaled_l2_size == (a.L2_size * 9) \div 10
             k_block_area == k_block * SizeofToi * (out_width + out_height)
         IN  IF k_block_area > scaled_l2_size
             THEN out_width
             ELSE LET n1 == (scaled_l2_size - k_block_area) \div (SizeofToi * k_block)
                      n2 == Max(n1 \div out_width, 1) * out_width
                      numblocks == iceildiv(a.Nsize, n2)
                  IN  roundup(iceildiv(a.Nsize, numblocks), out_width)

compute_n_block_raw(a) ==
    IF a.cfg.present /\ a.cfg.outer_block_size # 0
    THEN a.cfg.outer_block_size
    ELSE LET k_block == compute_k_block(a)
             scaled_l2_size == (a.L2_size * 9) \div 10
             k_block_area == k_block * SizeofToi * (out_width + out_height)
         IN  IF k_block_area > scaled_l2_size
             THEN out_width
             ELSE LET n1 == (scaled_l2_size - k_block_area) \div (SizeofToi * k_block)
                      n2 == Max(n1 \div out_width, 1) * out_width
                      numblocks == iceildiv(a.Nsize, n2)
                  IN  iceildiv(a.Nsize, numblocks)

compute_n_block(a) ==
    IF a.cfg.present /\ a.cfg.outer_block_size # 0
    THEN LET n_block == a.cfg.outer_block_size \div out_width
         IN  Max(n_block, 1) * out_width
    ELSE LET k_block == compute_k_block(a)
             scaled_l2_size == (a.L2_size * 9) \div 10
             k_block_area == k_block * SizeofToi * (out_width + out_height)
         IN  IF k_block_area > scaled_l2_size
             THEN out_width
             ELSE LET n1 == (scaled_l2_size - k_block_area) \div (SizeofToi * k_block)
                      n2 == Max(n1 \div out_width, 1) * out_width
                      numblocks == iceildiv(a.Nsize, n2)
                      n3 == iceildiv(a.Nsize, numblocks)
                  IN  roundup(n3, out_width)

\* NDRange<4>(a, b, c, d): a size of 0 counts as 1 (set_totalsizes)
NDRange(a, b, c, d) ==
    [i \in 1..4 |-> LET s == <<a, b, c, d>>[i] IN IF s = 0 THEN 1 ELSE s]

\* NDRange::m_totalsizes[d], d = 0..3: the product of sizes 0..d
totalsizes(d) ==
    CASE d = 0 -> _window_range[1]
      [] d = 1 -> _window_range[1] * _window_range[2]
      [] d = 2 -> _window_range[1] * _window_range[2] * _window_range[3]
      [] OTHER -> _window_range[1] * _window_range[2] * _window_range[3] * _window_range[4]

\* NDRange::total_size()
total_size == totalsizes(3)

\* NDRangeIterator::dim(d) at flat position pos
dim(pos, d) ==
    LET r1 == IF d < 3 THEN pos % totalsizes(d) ELSE pos
    IN  IF d > 0 THEN r1 \div totalsizes(d - 1) ELSE r1

\* get_window_size()
get_window_size == total_size

\* get_col_sum_size()
get_col_sum_size == args.Nsize * args.nmulti * SizeofInt32

\* get_working_size()
get_working_size == _nthreads * out_height * args.Nsize * SizeofTri

\* get_B_pretransposed_array_size()
get_B_pretransposed_array_size ==
    get_col_sum_size
    + roundup(args.Nsize, out_width) * roundup(args.Ksize, k_unroll) * args.nmulti * SizeofToi

\* B_pretranspose_required()
B_pretranspose_required == _B_transposed = NULL

\* get_config(): inner_block_size and outer_block_size
get_config == [inner_block_size |-> _k_block, outer_block_size |-> _n_block]

\* ------------------------------------------------- quantization parameters

\* Requantize32: the twelve requantization fields carry v, the bias pointer b
\* and its stride s.
Requantize32(v, b, s) ==
    [ bias |-> b, bias_multi_stride |-> s,
      a_offset |-> v, b_offset |-> v, c_offset |-> v,
      per_layer_left_shift |-> v, per_layer_right_shift |-> v, per_layer_mul |-> v,
      per_channel_requant |-> v,
      per_channel_left_shifts |-> v, per_channel_right_shifts |-> v,
      per_channel_muls |-> v,
      minval |-> v, maxval |-> v ]

QpValues == {0, 1}
QpSet == {Requantize32(v, v, v) : v \in QpValues}

\* update_quantization_parameters: the thirteen assignments
UpdatedQp_copy(qp, re) == re

UpdatedQp_no_offsets(qp, re) ==
    [qp EXCEPT !.bias = re.bias, !.c_offset = re.c_offset,
               !.per_layer_left_shift = re.per_layer_left_shift,
               !.per_layer_right_shift = re.per_layer_right_shift,
               !.per_layer_mul = re.per_layer_mul,
               !.per_channel_requant = re.per_channel_requant,
               !.per_channel_left_shifts = re.per_channel_left_shifts,
               !.per_channel_right_shifts = re.per_channel_right_shifts,
               !.per_channel_muls = re.per_channel_muls,
               !.minval = re.minval, !.maxval = re.maxval]

UpdatedQp(qp, re) ==
    [qp EXCEPT !.bias = re.bias,
               !.a_offset = re.a_offset, !.b_offset = re.b_offset,
               !.c_offset = re.c_offset,
               !.per_layer_left_shift = re.per_layer_left_shift,
               !.per_layer_right_shift = re.per_layer_right_shift,
               !.per_layer_mul = re.per_layer_mul,
               !.per_channel_requant = re.per_channel_requant,
               !.per_channel_left_shifts = re.per_channel_left_shifts,
               !.per_channel_right_shifts = re.per_channel_right_shifts,
               !.per_channel_muls = re.per_channel_muls,
               !.minval = re.minval, !.maxval = re.maxval]

\* ------------------------------------------------------------ memories

\* The caller's packing buffer and its workspace.
Buffers == {"bufA"}
Workspaces == {[buf |-> "ws", off |-> 0]}

\* A value no write has defined (uninitialised or out-of-bounds memory).
Indeterminate == [indeterminate |-> TRUE]

EmptyBuffer == [col_sums |-> << >>, panels |-> << >>]

\* f with the entries of g written over it
Store(f, g) == [x \in DOMAIN f \cup DOMAIN g |-> IF x \in DOMAIN g THEN g[x] ELSE f[x]]

Load(f, x) == IF x \in DOMAIN f THEN f[x] ELSE Indeterminate

EmptyMap == [x \in {} |-> Indeterminate]

\* ------------------------------------------------------------ weight packer

\* compute_col_sums over multi i: N column sums, each a function of the
\* column of B and of the quantization parameters in force.
ColSums(i) == [c \in 1..args.Nsize |-> [multi |-> i, col |-> c - 1, qp |-> _qp]]

\* requantize_bias: the loop of lines 273-275; multi i writes its N sums at
\* col_bias + i * N.
RECURSIVE requantize_bias_loop(_, _)
requantize_bias_loop(i, sums) ==
    IF i < args.nmulti
    THEN requantize_bias_loop(i + 1, SubSeq(sums, 1, i * args.Nsize) \o ColSums(i))
    ELSE sums

\* pretranspose_B_array: the three nested loops of lines 288-304; buffer is
\* the write position in bytes from the start of in_buffer.
RECURSIVE PackPanels(_, _, _, _, _)
PackPanels(multi, k0, x0, buffer, panels) ==
    IF multi >= args.nmulti THEN [panels |-> panels, buffer |-> buffer]
    ELSE IF k0 >= args.Ksize THEN PackPanels(multi + 1, 0, 0, buffer, panels)
    ELSE IF x0 >= args.Nsize THEN PackPanels(multi, k0 + _k_block, 0, buffer, panels)
    ELSE LET kmax == Min(k0 + _k_block, args.Ksize)
             k_size == roundup(kmax - k0, k_unroll)
             xmax == Min(x0 + _n_block, args.Nsize)
             size == roundup(xmax - x0, out_width) * k_size
             panel == [at |-> buffer, size |-> size * SizeofToi,
                       multi |-> multi, k0 |-> k0, kmax |-> kmax,
                       x0 |-> x0, xmax |-> xmax]
         IN  Local(buffer + size * SizeofToi,
                   LAMBDA b : PackPanels(multi, k0, x0 + _n_block, b, Append(panels, panel)))

Packed == PackPanels(0, 0, 0, get_col_sum_size, << >>)

\* The panel PrepareB wrote at byte address p.off of buffer p.buf.
PanelAt(p) ==
    IF p = NULL THEN Indeterminate
    ELSE LET ps == mem[p.buf].panels
             hit == {i \in 1..Len(ps) : ps[i].at = p.off}
         IN  IF hit = {} THEN Indeterminate
             ELSE LET q == ps[CHOOSE i \in hit : TRUE]
                  IN  [multi |-> q.multi, k0 |-> q.k0, kmax |-> q.kmax,
                       x0 |-> q.x0, xmax |-> q.xmax]

\* The column sum at int32 index i past pointer p.
ColSumAt(p, i) ==
    IF p = NULL THEN Indeterminate
    ELSE LET cs == mem[p.buf].col_sums
             x == (p.off \div SizeofInt32) + i + 1
         IN  IF x \in 1..Len(cs) THEN cs[x] ELSE Indeterminate

\* ------------------------------------------------------------------ execute

\* line 181: the byte offset of this thread's result buffer in the workspace
result_buffer_shared(threadid) == 0

result_buffer(threadid) == threadid * out_height * args.Nsize * SizeofTri

\* line 184: assert(_B_transposed)
assert_disabled == TRUE

assert_B_transposed == _B_transposed # NULL

\* lines 201-206: the work item at position pos of the window
WorkItem(pos) ==
    [ m_start |-> dim(pos, 0) * out_height,
      m_end   |-> Min((dim(pos, 0) + 1) * out_height, args.Msize),
      batch   |-> dim(pos, 1),
      n0      |-> dim(pos, 2) * _n_block,
      nmax    |-> Min(dim(pos, 2) * _n_block + _n_block, args.Nsize),
      multi   |-> dim(pos, 3),
      coord   |-> <<dim(pos, 0), dim(pos, 1), dim(pos, 2), dim(pos, 3)>> ]

\* lines 210-213: the panel address, in bytes from the start of the buffer
b_panel_no_multi(w, k0, kern_k) ==
    IF _B_transposed = NULL THEN NULL
    ELSE [buf |-> _B_transposed.buf,
          off |-> _B_transposed.off
                  + ((k0 * roundup(args.Nsize, out_width)) + (w.n0 * kern_k)) * SizeofToi]

b_panel(w, k0, kern_k) ==
    IF _B_transposed = NULL THEN NULL
    ELSE [buf |-> _B_transposed.buf,
          off |-> _B_transposed.off
                  + ( (w.multi * roundup(args.Nsize, out_width) * roundup(args.Ksize, k_unroll))
                    + (k0 * roundup(args.Nsize, out_width))
                    + (w.n0 * kern_k) ) * SizeofToi]

\* lines 219-223: the arguments of strat.kernel for the item at pos
KernelCall(call, threadid, pos, k0) ==
    LET w == WorkItem(pos)
        kmax == Min(k0 + _k_block, args.Ksize)
        kern_k == roundup(kmax - k0, k_unroll)
    IN  [ op |-> "kernel", call |-> call, threadid |-> threadid, coord |-> w.coord,
          k0 |-> k0, kmax |-> kmax,
          a_row |-> <<w.multi, w.batch, w.m_start>>,
          b_panel |-> b_panel(w, k0, kern_k),
          result_buffer |-> result_buffer(threadid), ldc |-> w.nmax - w.n0,
          M |-> w.m_end - w.m_start, N |-> w.nmax - w.n0, K |-> kmax - k0 ]

\* lines 240-242: the arguments of requantize_block_32 for the item at pos
RequantCall(call, threadid, pos, k0) ==
    LET w == WorkItem(pos)
    IN  [ op |-> "requantize", call |-> call, threadid |-> threadid, coord |-> w.coord,
          k0 |-> k0,
          width |-> w.nmax - w.n0, height |-> w.m_end - w.m_start,
          input |-> result_buffer(threadid), in_stride |-> w.nmax - w.n0,
          output |-> (w.multi * g_arrays.C_multi_stride) + (w.batch * g_arrays.C_batch_stride)
                     + (w.m_start * g_arrays.ldc) + w.n0,
          out_stride |-> g_arrays.ldc,
          row |-> <<w.multi, w.batch, w.m_start>>,
          col_bias |-> (w.multi * args.Nsize) + w.n0,
          start_col |-> w.n0 ]

\* strat.kernel: the scratch bytes it writes, an M x N block of accumulators
\* with row stride ldc, and the dot products it leaves there.
KernelWrites(kc) ==
    {kc.result_buffer + (r * kc.ldc + c) * SizeofTri : r \in 0..(kc.M - 1), c \in 0..(kc.N - 1)}

KernelResult(kc) ==
    LET panel == PanelAt(kc.b_panel)
    IN  [x \in {<<g_arrays.workspace.buf, a>> : a \in KernelWrites(kc)} |->
            LET e == (x[2] - kc.result_buffer) \div SizeofTri
            IN  [ a |-> <<kc.a_row[1], kc.a_row[2], kc.a_row[3] + (e \div kc.ldc)>>,
                  k |-> <<kc.k0, kc.kmax>>, b |-> panel, c |-> e % kc.ldc ]]

\* requantize_block_32: the scratch bytes it reads and the output elements it
\* writes, a height x width block with row stride out_stride.
RequantReads(rc) ==
    {rc.input + (r * rc.in_stride + c) * SizeofTri : r \in 0..(rc.height - 1), c \in 0..(rc.width - 1)}

RequantWrites(rc) ==
    {rc.output + r * rc.out_stride + c : r \in 0..(rc.height - 1), c \in 0..(rc.width - 1)}

RequantResult(rc, sc) ==
    [x \in RequantWrites(rc) |->
        LET r == (x - rc.output) \div rc.out_stride
            c == (x - rc.output) % rc.out_stride
        IN  [ acc |-> Load(sc, <<g_arrays.workspace.buf, rc.input + (r * rc.in_stride + c) * SizeofTri>>),
              row_sum |-> <<rc.row[1], rc.row[2], rc.row[3] + r>>,
              col_bias |-> ColSumAt(col_bias, rc.col_bias + c),
              col |-> rc.start_col + c,
              qp |-> _qp ]]

\* The invocations made so far, each with the number of times it was made.
LogAdd(l, e) ==
    [x \in DOMAIN l \cup {e} |->
        (IF x \in DOMAIN l THEN l[x] ELSE 0) + (IF x = e THEN 1 ELSE 0)]

\* lines 215-224: the kernel step of one work item
DoKernel(st, call, threadid, pos, k0) ==
    LET kc == KernelCall(call, threadid, pos, k0)
    IN  [st EXCEPT !.scratch = Store(st.scratch, KernelResult(kc)),
                   !.log = LogAdd(st.log, kc)]

\* lines 226-243: the row sums and the requantization of one work item
DoRequant(st, call, threadid, pos, k0) ==
    LET rc == RequantCall(call, threadid, pos, k0)
    IN  [st EXCEPT !.Cmem = Store(st.Cmem, RequantResult(rc, st.scratch)),
                   !.log = LogAdd(st.log, rc)]

\* lines 201-243: the body of the do-while loop at position pos
ItemStep(st, call, threadid, pos, k0) ==
    Local(DoKernel(st, call, threadid, pos, k0), LAMBDA st1 :
          DoRequant(st1, call, threadid, pos, k0))

\* lines 200-244: the do-while loop over the positions pos .. end - 1, in
\* order; the body runs at least once.  The range is halved so that the
\* evaluation nests no deeper than the logarithm of its length.
RECURSIVE ItemLoop(_, _, _, _, _, _)
ItemLoop(st, call, threadid, pos, end, k0) ==
    IF pos + 1 >= end THEN ItemStep(st, call, threadid, pos, k0)
    ELSE LET mid == (pos + end) \div 2
         IN  Local(ItemLoop(st, call, threadid, pos, mid, k0), LAMBDA st1 :
                   ItemLoop(st1, call, threadid, mid, end, k0))

\* lines 190-245: the loop over the K blocks
RECURSIVE KLoop(_, _, _, _)
KLoop(st, call, threadid, k0) ==
    IF k0 >= args.Ksize THEN st
    ELSE IF call[1] >= call[2] THEN st
    ELSE Local(ItemLoop(st, call, threadid, call[1], call[2], k0), LAMBDA st1 :
               KLoop(st1, call, threadid, k0 + _k_block))

\* ----------------------------------------------------------- construction

\* The constructor's initialiser list, lines 152-157.
Constructor(a, qp) ==
    LET n_block == compute_n_block(a)
    IN  [ k_block |-> compute_k_block(a),
          n_block |-> n_block,
          Mround |-> roundup(a.Msize, out_height),
          window_range |-> NDRange(iceildiv(a.Msize, out_height), a.nbatches,
                                   iceildiv(a.Nsize, n_block), a.nmulti),
          qp |-> qp,
          nthreads |-> a.maxthreads ]

\* The output strides the caller set (GemmCommon::set_arrays): rows of ldc
\* elements, batches and multis packed one after another.
Arrays(a, pad) ==
    [ workspace |-> NULL,
      ldc |-> a.Nsize + pad,
      C_batch_stride |-> a.Msize * (a.Nsize + pad),
      C_multi_stride |-> a.nbatches * a.Msize * (a.Nsize + pad) ]

NoThreads == [t \in {} |-> [pc |-> "idle"]]

\* Nothing is constructed yet: the fields hold no value.
RawState(a, s, pad) ==
    /\ args = a
    /\ strategy = s
    /\ status = "raw"
    /\ _k_block = 0 /\ _n_block = 0 /\ _Mround = 0
    /\ _window_range = NDRange(0, 0, 0, 0)
    /\ _B_transposed = NULL /\ col_bias = NULL
    /\ _qp = Requantize32(0, 0, 0)
    /\ _nthreads = 0
    /\ g_arrays = Arrays(a, pad)
    /\ mem = [b \in Buffers |-> EmptyBuffer]
    /\ scratch = EmptyMap /\ Cmem = EmptyMap /\ log = EmptyMap
    /\ thr = NoThreads /\ pending = {}

\* The state right after GemmHybridQuantized(a, qp).
ConstructedState(a, s, qp, pad) ==
    /\ args = a
    /\ strategy = s
    /\ status = "ready"
    /\ LET c == Constructor(a, qp)
       IN  /\ _k_block = c.k_block /\ _n_block = c.n_block /\ _Mround = c.Mround
           /\ _window_range = c.window_range
           /\ _qp = c.qp /\ _nthreads = c.nthreads
    /\ _B_transposed = NULL /\ col_bias = NULL
    /\ g_arrays = Arrays(a, pad)
    /\ mem = [b \in Buffers |-> EmptyBuffer]
    /\ scratch = EmptyMap /\ Cmem = EmptyMap /\ log = EmptyMap
    /\ thr = NoThreads /\ pending = {}

\* GemmHybridQuantized(args, qp) as a step (SpecPlan)
GemmHybridQuantized(qp) ==
    /\ status = "raw"
    /\ status' = "ready"
    /\ LET c == Constructor(args, qp)
       IN  /\ _k_block' = c.k_block /\ _n_block' = c.n_block /\ _Mround' = c.Mround
           /\ _window_range' = c.window_range
           /\ _qp' = c.qp /\ _nthreads' = c.nthreads
    /\ UNCHANGED << args, strategy, _B_transposed, col_bias, g_arrays, mem,
                    scratch, Cmem, log, thr, pending >>

\* ---------------------------------------------------------------- the calls

engine_consts == << args, strategy, _k_block, _n_block, _Mround, _window_range, _nthreads >>

set_working_space(buffer) ==
    /\ status = "ready"
    /\ g_arrays' = [g_arrays EXCEPT !.workspace = buffer]
    /\ UNCHANGED << engine_consts, status, _B_transposed, col_bias, _qp, mem,
                    scratch, Cmem, log, thr, pending >>

\* lines 271-275
requantize_bias(in_buffer) ==
    /\ status = "ready"
    /\ col_bias' = [buf |-> in_buffer, off |-> 0]
    /\ mem' = [mem EXCEPT ![in_buffer].col_sums =
                  requantize_bias_loop(0, @)]
    /\ UNCHANGED << engine_consts, status, _B_transposed, _qp, g_arrays,
                    scratch, Cmem, log, thr, pending >>

\* lines 278-305
pretranspose_B_array(in_buffer, transposed) ==
    /\ status = "ready"
    /\ IF transposed
       THEN /\ status' = "assert_not_transposed"
            /\ UNCHANGED << col_bias, mem, _B_transposed >>
       ELSE /\ col_bias' = [buf |-> in_buffer, off |-> 0]
            /\ _B_transposed' = [buf |-> in_buffer, off |-> get_col_sum_size]
            /\ mem' = [mem EXCEPT ![in_buffer] =
                          [ col_sums |-> requantize_bias_loop(0, @.col_sums),
                            panels |-> Packed.panels ]]
            /\ UNCHANGED status
    /\ UNCHANGED << engine_consts, _qp, g_arrays, scratch, Cmem, log, thr, pending >>

\* lines 307-311
set_pretransposed_B_data(in_buffer) ==
    /\ status = "ready"
    /\ _B_transposed' = [buf |-> in_buffer, off |-> get_col_sum_size]
    /\ col_bias' = [buf |-> in_buffer, off |-> 0]
    /\ UNCHANGED << engine_consts, status, _qp, g_arrays, mem, scratch, Cmem,
                    log, thr, pending >>

\* lines 313-316
set_quantized_bias(bias, bias_multi_stride) ==
    /\ status = "ready"
    /\ _qp' = [_qp EXCEPT !.bias = bias, !.bias_multi_stride = bias_multi_stride]
    /\ UNCHANGED << engine_consts, status, _B_transposed, col_bias, g_arrays, mem,
                    scratch, Cmem, log, thr, pending >>

\* lines 329-343
update_quantization_parameters(re) ==
    /\ status = "ready"
    /\ _qp' = UpdatedQp(_qp, re)
    /\ UNCHANGED << engine_consts, status, _B_transposed, col_bias, g_arrays, mem,
                    scratch, Cmem, log, thr, pending >>

EmptyMemories == [scratch |-> EmptyMap, Cmem |-> EmptyMap, log |-> EmptyMap]

\* The first position of work_range whose processing leaves the caller's
\* buffers: every position when no workspace is bound, else the first one
\* past the window, counted from 1; 0 when there is none.
FirstWild(work_range) ==
    LET from == IF g_arrays.workspace = NULL THEN work_range[1]
                ELSE Max(work_range[1], get_window_size)
    IN  IF from < work_range[2] THEN from + 1 ELSE 0

\* execute(work_range, -, threadid), run to completion by the calling thread.
\* A call whose accesses leave the caller's buffers either runs through,
\* reading and writing wherever its addresses point, or faults inside the
\* kernel at the first such position.
execute(work_range, threadid) ==
    /\ status = "ready"
    /\ IF ~assert_B_transposed
       THEN /\ status' = "assert_B_transposed"
            /\ UNCHANGED << scratch, Cmem, log >>
       ELSE \E fault \in IF FirstWild(work_range) = 0 THEN {FALSE} ELSE BOOLEAN :
            \E st \in { IF fault
                        THEN LET wild == FirstWild(work_range) - 1
                                 pre == IF work_range[1] < wild
                                        THEN ItemLoop(EmptyMemories, work_range, threadid,
                                                      work_range[1], wild, 0)
                                        ELSE EmptyMemories
                             IN  [pre EXCEPT !.log = LogAdd(@, KernelCall(work_range, threadid, wild, 0))]
                        ELSE KLoop(EmptyMemories, work_range, threadid, 0) } :
                /\ status' = IF fault THEN "crashed" ELSE "done"
                /\ scratch' = Store(scratch, st.scratch)
                /\ Cmem' = Store(Cmem, st.Cmem)
                /\ log' = st.log
    /\ UNCHANGED << engine_consts, _B_transposed, col_bias, _qp, g_arrays, mem,
                    thr, pending >>

\* ------------------------------------------------------------ Spec: life cycle

Config(present, inner, outer) ==
    [present |-> present, inner_block_size |-> inner, outer_block_size |-> outer]

GemmArgs(M, N, K, nbatches, nmulti, maxthreads, cfg, L2) ==
    [ Msize |-> M, Nsize |-> N, Ksize |-> K, nbatches |-> nbatches, nmulti |-> nmulti,
      maxthreads |-> maxthreads, cfg |-> cfg, L2_size |-> L2 ]

Tile(w, h, k) == [out_width |-> w, out_height |-> h, k_unroll |-> k]

\* The problems the life cycle and the worker threads are followed for:
\* whole and partial tiles in M and N, K a multiple of k_unroll or not, one
\* or two batches and multis, n_block from the caches or from the override.
Shapes ==
    { [M |-> 1, N |-> 1, K |-> 1, nbatches |-> 1, nmulti |-> 1,
       cfg |-> Config(FALSE, 0, 0), L2 |-> 40, tile |-> Tile(1, 1, 1)],
      [M |-> 2, N |-> 3, K |-> 3, nbatches |-> 1, nmulti |-> 2,
       cfg |-> Config(FALSE, 0, 0), L2 |-> 0, tile |-> Tile(2, 2, 2)],
      [M |-> 3, N |-> 2, K |-> 2, nbatches |-> 2, nmulti |-> 1,
       cfg |-> Config(TRUE, 1, 0), L2 |-> 40, tile |-> Tile(2, 2, 1)],
      [M |-> 1, N |-> 3, K |-> 2, nbatches |-> 1, nmulti |-> 1,
       cfg |-> Config(TRUE, 0, 1), L2 |-> 40, tile |-> Tile(1, 1, 1)] }

ShapeArgs(sh, maxthreads) ==
    GemmArgs(sh.M, sh.N, sh.K, sh.nbatches, sh.nmulti, maxthreads, sh.cfg, sh.L2)

WorkRanges ==
    {r \in (0..(get_window_size + MaxOver)) \X (0..(get_window_size + MaxOver)) : r[1] <= r[2]}

Init ==
    \E sh \in Shapes, qp \in QpSet :
        ConstructedState(ShapeArgs(sh, 2), sh.tile, qp, 0)

Next ==
    \/ \E buffer \in Workspaces : set_working_space(buffer)
    \/ \E in_buffer \in Buffers : requantize_bias(in_buffer)
    \/ \E in_buffer \in Buffers, transposed \in BOOLEAN :
          pretranspose_B_array(in_buffer, transposed)
    \/ \E in_buffer \in Buffers : set_pretransposed_B_data(in_buffer)
    \/ \E bias \in QpValues, stride \in QpValues : set_quantized_bias(bias, stride)
    \/ \E re \in QpSet : update_quantization_parameters(re)
    \/ \E work_range \in WorkRanges, threadid \in 0..(_nthreads - 1) :
          execute(work_range, threadid)

Spec == Init /\ [][Next]_vars

\* ------------------------------------- SpecPlan: planner, packer, one execute

PlanConfigs ==
    { Config(FALSE, 0, 0), Config(TRUE, 0, 0), Config(TRUE, 2, 0), Config(TRUE, 0, 1),
      Config(TRUE, 0, 3), Config(TRUE, 1, 5), Config(TRUE, 2, 4) }

PlanTiles == { Tile(1, 1, 1), Tile(2, 1, 2), Tile(2, 2, 1), Tile(3, 2, 2), Tile(4, 2, 4) }

\* get_L2_cache_size(), in bytes
CacheSizes == {0, 12, 40}

\* A configuration with the cache it meets; with an override the cache is
\* not read.
PlanInputs ==
    {in \in PlanConfigs \X CacheSizes :
        (in[1].present /\ in[1].outer_block_size # 0) => in[2] # 12}

PlanBatches == {1, 2}

PlanInit ==
    \E M \in 1..MaxM, N \in 1..MaxN, K \in 1..MaxK,
       nbatches \in PlanBatches, nmulti \in 1..MaxMulti,
       in \in PlanInputs, tile \in PlanTiles :
        RawState(GemmArgs(M, N, K, nbatches, nmulti, 1, in[1], in[2]), tile, 0)

\* The caller's protocol: bind the workspace, pack B, then run the window.
PlanBind ==
    /\ g_arrays.workspace = NULL
    /\ \E buffer \in Workspaces : set_working_space(buffer)

PlanPack ==
    /\ g_arrays.workspace # NULL
    /\ B_pretranspose_required
    /\ \E in_buffer \in Buffers : pretranspose_B_array(in_buffer, FALSE)

PlanRun ==
    /\ g_arrays.workspace # NULL
    /\ ~B_pretranspose_required
    /\ execute(<<0, get_window_size>>, 0)

PlanNext ==
    \/ GemmHybridQuantized(Requantize32(0, 0, 0))
    \/ PlanBind
    \/ PlanPack
    \/ PlanRun

SpecPlan == PlanInit /\ [][PlanNext]_vars

\* ------------------------------------------------- SpecMT: worker threads

\* The state the caller sets up before it starts the workers: constructed,
\* workspace bound, B packed by pretranspose_B_array.
PackedState(a, s, qp, pad) ==
    /\ args = a
    /\ strategy = s
    /\ status = "ready"
    /\ LET c == Constructor(a, qp)
       IN  /\ _k_block = c.k_block /\ _n_block = c.n_block /\ _Mround = c.Mround
           /\ _window_range = c.window_range
           /\ _qp = c.qp /\ _nthreads = c.nthreads
    /\ _B_transposed = [buf |-> "bufA", off |-> get_col_sum_size]
    /\ col_bias = [buf |-> "bufA", off |-> 0]
    /\ g_arrays = [Arrays(a, pad) EXCEPT !.workspace = [buf |-> "ws", off |-> 0]]
    /\ mem = [b \in Buffers |-> [col_sums |-> requantize_bias_loop(0, << >>),
                                panels |-> Packed.panels]]
    /\ scratch = EmptyMap /\ Cmem = EmptyMap /\ log = EmptyMap
    /\ thr = [t \in 0..(a.maxthreads - 1) |-> [pc |-> "idle", call |-> <<0, 0>>, pos |-> 0, k0 |-> 0]]
    /\ pending = {}

LdcPads == {0, 1}

MTInit ==
    \E sh \in Shapes, maxthreads \in 1..MaxThreads, pad \in LdcPads :
        PackedState(ShapeArgs(sh, maxthreads), sh.tile, Requantize32(0, 0, 0), pad)

\* The sub-ranges the window falls into when cut at the positions of cuts.
Ranges(cuts) ==
    LET marks == cuts \cup {0, get_window_size}
    IN  {r \in marks \X marks :
            r[1] < r[2] /\ \A c \in marks : ~(r[1] < c /\ c < r[2])}

\* The scheduler splits the window into sub-ranges.
Schedule(cuts) ==
    /\ status = "ready"
    /\ status' = "running"
    /\ pending' = Ranges(cuts)
    /\ UNCHANGED << engine_consts, _B_transposed, col_bias, _qp, g_arrays, mem,
                    scratch, Cmem, log, thr >>

\* lines 174-198: thread t is handed the sub-range r and enters execute
ExecuteEnter(t, r) ==
    /\ status = "running"
    /\ thr[t].pc = "idle"
    /\ r \in pending
    /\ pending' = pending \ {r}
    /\ IF ~assert_B_transposed
       THEN status' = "assert_B_transposed" /\ UNCHANGED thr
       ELSE /\ UNCHANGED status
            /\ thr' = IF 0 < args.Ksize /\ r[1] < r[2]
                      THEN [thr EXCEPT ![t] = [pc |-> "kernel", call |-> r, pos |-> r[1], k0 |-> 0]]
                      ELSE thr
    /\ UNCHANGED << engine_consts, _B_transposed, col_bias, _qp, g_arrays, mem,
                    scratch, Cmem, log >>

\* lines 215-224: thread t runs the kernel on its current work item
ExecuteKernel(t) ==
    /\ status = "running"
    /\ thr[t].pc = "kernel"
    /\ \E st \in {DoKernel([scratch |-> scratch, Cmem |-> Cmem, log |-> log],
                           thr[t].call, t, thr[t].pos, thr[t].k0)} :
          scratch' = st.scratch /\ log' = st.log
    /\ thr' = [thr EXCEPT ![t].pc = "requantize"]
    /\ UNCHANGED << engine_consts, status, _B_transposed, col_bias, _qp, g_arrays,
                    mem, Cmem, pending >>

\* lines 226-245: thread t requantizes its work item and steps the iterator
ExecuteRequantize(t) ==
    /\ status = "running"
    /\ thr[t].pc = "requantize"
    /\ \E st \in {DoRequant([scratch |-> scratch, Cmem |-> Cmem, log |-> log],
                            thr[t].call, t, thr[t].pos, thr[t].k0)} :
          Cmem' = st.Cmem /\ log' = st.log
    /\ thr' = IF thr[t].pos + 1 < thr[t].call[2]
              THEN [thr EXCEPT ![t].pc = "kernel", ![t].pos = @ + 1]
              ELSE IF thr[t].k0 + _k_block < args.Ksize
              THEN [thr EXCEPT ![t].pc = "kernel", ![t].pos = thr[t].call[1],
                               ![t].k0 = @ + _k_block]
              ELSE [thr EXCEPT ![t] = [pc |-> "idle", call |-> <<0, 0>>, pos |-> 0, k0 |-> 0]]
    /\ UNCHANGED << engine_consts, status, _B_transposed, col_bias, _qp, g_arrays,
                    mem, scratch, pending >>

MTNext ==
    \/ \E cuts \in SUBSET (1..(get_window_size - 1)) : Schedule(cuts)
    \/ \E t \in DOMAIN thr, r \in pending : ExecuteEnter(t, r)
    \/ \E t \in DOMAIN thr : ExecuteKernel(t)
    \/ \E t \in DOMAIN thr : ExecuteRequantize(t)

SpecMT == MTInit /\ [][MTNext]_vars

\* ------------------------------------------------------------- properties

\* ceil(a / b) and the multiples of b, stated without the code's helpers
CeilDiv(a, b) == CHOOSE q \in 0..a : (q - 1) * b < a /\ a <= q * b
MultipleAbove(a, b) == CHOOSE m \in a..(a + b) : m % b = 0 /\ m - b < a
MultipleBelow(a, b) == CHOOSE m \in 0..a : m % b = 0 /\ a < m + b

Override == args.cfg.present /\ args.cfg.outer_block_size # 0

\* The (m_tile, batch, n_tile, multi) tuples of the iteration space
WindowTuples ==
    (0..(CeilDiv(args.Msize, out_height) - 1)) \X (0..(args.nbatches - 1))
    \X (0..(CeilDiv(args.Nsize, _n_block) - 1)) \X (0..(args.nmulti - 1))

Entries(op, coord) == {e \in DOMAIN log : e.op = op /\ e.coord = coord}

\* C1: get_window_size() is ceil(M/out_height) * batches * ceil(N/n_block) *
\* multis, and one execute call over [0, get_window_size()) runs the kernel
\* and the row-sum + requantize step exactly once for every tuple of the
\* window and for no other tuple, each kernel call covering all of K.
C1_FullWindowOnce ==
    status # "raw" =>
        /\ get_window_size = CeilDiv(args.Msize, out_height) * args.nbatches
                             * CeilDiv(args.Nsize, _n_block) * args.nmulti
        /\ status = "done" =>
            /\ \A c \in WindowTuples : \A op \in {"kernel", "requantize"} :
                  /\ Cardinality(Entries(op, c)) = 1
                  /\ \A e \in Entries(op, c) : log[e] = 1
            /\ \A e \in DOMAIN log :
                  /\ e.coord \in WindowTuples
                  /\ e.k0 = 0
                  /\ e.op = "kernel" => e.kmax = args.Ksize /\ e.K = args.Ksize

C1_Witness ==
    /\ status = "done"
    /\ args.cfg.present /\ args.cfg.inner_block_size # 0
    /\ args.cfg.inner_block_size < args.Ksize
    /\ args.cfg.outer_block_size # 0
    /\ get_window_size >= 4
    /\ Cardinality(DOMAIN log) = 2 * get_window_size

\* C3: for every work item of the window the panel address execute passes to
\* the kernel, multi * roundup(N,out_width) * roundup(K,k_unroll)
\* + k0 * roundup(N,out_width) + n0 * kern_k elements past the packed base,
\* is where pretranspose_B_array started the panel of that (multi, k-block,
\* n-block).
C3_PanelAddress ==
    status = "done" =>
        \A e \in DOMAIN log : e.op = "kernel" =>
            LET p == PanelAt(e.b_panel)
                n0 == e.coord[3] * _n_block
            IN  /\ p # Indeterminate
                /\ p.multi = e.coord[4] /\ p.k0 = e.k0 /\ p.x0 = n0
                /\ e.b_panel.off - _B_transposed.off =
                      ( e.coord[4] * MultipleAbove(args.Nsize, out_width)
                                   * MultipleAbove(args.Ksize, k_unroll)
                      + e.k0 * MultipleAbove(args.Nsize, out_width)
                      + n0 * MultipleAbove(e.kmax - e.k0, k_unroll) ) * SizeofToi

C3_Witness ==
    /\ status = "done"
    /\ args.Nsize % _n_block # 0 /\ args.Nsize % out_width # 0
    /\ args.Ksize % k_unroll # 0
    /\ \E e \in DOMAIN log : e.op = "kernel" /\ e.coord[3] >= 1 /\ e.coord[4] >= 1

\* C4: get_B_pretransposed_array_size() is N * multis * 4 + multis *
\* roundup(N,out_width) * roundup(K,k_unroll) * sizeof(operand), and
\* pretranspose_B_array fills exactly that: the column sums take the first
\* N * multis * 4 bytes, the panels follow one another from there, each of
\* roundup(n extent,out_width) * roundup(k extent,k_unroll) operands, and the
\* last one ends at that size.
C4_PackedExtent ==
    (status # "raw" /\ ~B_pretranspose_required) =>
        LET ps == mem[_B_transposed.buf].panels
            bias_bytes == args.Nsize * args.nmulti * 4
        IN  /\ get_B_pretransposed_array_size =
                  bias_bytes + args.nmulti * MultipleAbove(args.Nsize, out_width)
                               * MultipleAbove(args.Ksize, k_unroll) * SizeofToi
            /\ Len(mem[col_bias.buf].col_sums) * SizeofInt32 = bias_bytes
            /\ Len(ps) >= 1 /\ ps[1].at = bias_bytes
            /\ \A i \in 1..Len(ps) :
                  /\ ps[i].size = MultipleAbove(ps[i].xmax - ps[i].x0, out_width)
                                  * MultipleAbove(ps[i].kmax - ps[i].k0, k_unroll) * SizeofToi
                  /\ i < Len(ps) => ps[i + 1].at = ps[i].at + ps[i].size
            /\ ps[Len(ps)].at + ps[Len(ps)].size = get_B_pretransposed_array_size

C4_Witness ==
    /\ status = "ready" /\ ~B_pretranspose_required
    /\ Len(mem[_B_transposed.buf].panels) >= 4
    /\ args.Nsize % out_width # 0 /\ args.Ksize % k_unroll # 0
    /\ args.Nsize % _n_block # 0

\* C6: compute_n_block returns a value greater than 0 that is a multiple of
\* out_width, and the N extent of the window is ceil(N / n_block).
C6_NBlockMultiple ==
    status # "raw" =>
        /\ _n_block = compute_n_block(args)
        /\ _n_block > 0
        /\ _n_block % out_width = 0
        /\ _window_range[3] = CeilDiv(args.Nsize, _n_block)

C6_Witness ==
    /\ status = "ready" /\ ~Override
    /\ args.Nsize = 4 /\ out_width = 1 /\ _n_block = 2 /\ _window_range[3] = 2

\* C7 as claimed: a non-zero outer_block_size is rounded up to the next
\* multiple of out_width, and get_config() reports that value.
C7_OverrideRoundedUp ==
    (status # "raw" /\ Override) =>
        /\ _n_block = MultipleAbove(args.cfg.outer_block_size, out_width)
        /\ get_config.outer_block_size = MultipleAbove(args.cfg.outer_block_size, out_width)

\* C7 as amended: a non-zero outer_block_size is rounded down to a multiple
\* of out_width, to out_width itself when it is smaller than out_width, and
\* get_config() reports that value.
C7_OverrideRoundedDown ==
    (status # "raw" /\ Override) =>
        /\ _n_block = IF args.cfg.outer_block_size < out_width THEN out_width
                      ELSE MultipleBelow(args.cfg.outer_block_size, out_width)
        /\ get_config.outer_block_size = _n_block

C7_Witness ==
    /\ status = "ready" /\ Override
    /\ args.cfg.outer_block_size > out_width
    /\ args.cfg.outer_block_size % out_width # 0

\* C8: as long as neither pretranspose_B_array nor set_pretransposed_B_data
\* was called, B_pretranspose_required() is true, and an execute call then
\* stops at the assertion of line 184: no kernel call, no write to the
\* workspace or to the output tensor.
C8_UnpackedExecuteAsserts ==
    /\ B_pretranspose_required
    /\ [][ (B_pretranspose_required /\ ~B_pretranspose_required') =>
              \E in_buffer \in Buffers :
                  \/ pretranspose_B_array(in_buffer, FALSE)
                  \/ set_pretransposed_B_data(in_buffer) ]_vars
    /\ [][ (B_pretranspose_required
            /\ \E work_range \in WorkRanges, threadid \in 0..(_nthreads - 1) :
                  execute(work_range, threadid)) =>
              /\ status' = "assert_B_transposed"
              /\ log' = EmptyMap /\ scratch' = EmptyMap /\ Cmem' = EmptyMap ]_vars

C8_Witness ==
    /\ status = "assert_B_transposed"
    /\ B_pretranspose_required
    /\ col_bias # NULL /\ g_arrays.workspace # NULL
    /\ _qp # Requantize32(0, 0, 0) /\ _qp # Requantize32(1, 1, 1)
    /\ log = EmptyMap /\ scratch = EmptyMap /\ Cmem = EmptyMap

\* C9 as claimed: an execute call whose work_range is not inside
\* [0, get_window_size()) stops at an assertion before any work item is
\* processed, so every kernel and requantize call belongs to a call whose
\* range lies in the window and is for a coordinate of the window.
C9_OutOfWindowAsserts ==
    g_arrays.workspace # NULL =>
        \A e \in DOMAIN log :
            /\ e.call[2] <= get_window_size
            /\ e.coord \in WindowTuples

\* C10: update_quantization_parameters(re) sets the thirteen fields it names
\* to those of re and leaves bias_multi_stride, the column sums and their
\* pointer, the packed-weights pointer and the blocking as they were;
\* set_quantized_bias changes bias and bias_multi_stride only; the column
\* sums change only in requantize_bias and pretranspose_B_array.
Blocking == << _k_block, _n_block, _Mround, _window_range, _nthreads >>

C10_ParameterUpdateFrame ==
    [][ /\ \A re \in QpSet : update_quantization_parameters(re) =>
              /\ _qp'.bias = re.bias
              /\ _qp'.a_offset = re.a_offset /\ _qp'.b_offset = re.b_offset
              /\ _qp'.c_offset = re.c_offset
              /\ _qp'.per_layer_left_shift = re.per_layer_left_shift
              /\ _qp'.per_layer_right_shift = re.per_layer_right_shift
              /\ _qp'.per_layer_mul = re.per_layer_mul
              /\ _qp'.per_channel_requant = re.per_channel_requant
              /\ _qp'.per_channel_left_shifts = re.per_channel_left_shifts
              /\ _qp'.per_channel_right_shifts = re.per_channel_right_shifts
              /\ _qp'.per_channel_muls = re.per_channel_muls
              /\ _qp'.minval = re.minval /\ _qp'.maxval = re.maxval
              /\ _qp'.bias_multi_stride = _qp.bias_multi_stride
              /\ UNCHANGED << col_bias, mem, _B_transposed, Blocking >>
        /\ \A bias \in QpValues, stride \in QpValues : set_quantized_bias(bias, stride) =>
              /\ _qp' = [_qp EXCEPT !.bias = bias, !.bias_multi_stride = stride]
              /\ \A f \in DOMAIN _qp \ {"bias", "bias_multi_stride"} : _qp'[f] = _qp[f]
              /\ UNCHANGED << col_bias, mem, _B_transposed, Blocking >>
        /\ (mem' # mem) =>
              \E in_buffer \in Buffers :
                  requantize_bias(in_buffer) \/ pretranspose_B_array(in_buffer, FALSE)
      ]_vars

C10_Witness ==
    /\ status = "ready"
    /\ col_bias # NULL
    /\ ColSumAt(col_bias, 0) # Indeterminate
    /\ ColSumAt(col_bias, 0).qp.a_offset # _qp.a_offset
    /\ ColSumAt(col_bias, 0).qp.b_offset # _qp.b_offset
    /\ _qp.bias_multi_stride # _qp.a_offset
    /\ _qp.bias = _qp.a_offset

\* The scratch bytes a kernel or requantize call touches, and the slice of
\* the workspace that belongs to thread t.
ScratchBytes(e) ==
    {a + i : a \in (IF e.op = "kernel" THEN KernelWrites(e) ELSE RequantReads(e)),
             i \in 0..(SizeofTri - 1)}

Slice(t) ==
    (t * out_height * args.Nsize * SizeofTri) .. ((t + 1) * out_height * args.Nsize * SizeofTri - 1)

\* C2: with execute calls interleaved, each on its own thread id below
\* maxthreads and on a sub-range disjoint from the others, no element of the
\* output tensor is written by two calls, no byte of the workspace is touched
\* by two calls on different threads, and every scratch access of thread t
\* lies in bytes [t*out_height*N*sizeof(Tri), (t+1)*out_height*N*sizeof(Tri))
\* of a workspace of get_working_size() bytes.
C2_NoSharedWrites ==
    \A e1 \in DOMAIN log :
        /\ ScratchBytes(e1) \subseteq Slice(e1.threadid)
        /\ Slice(e1.threadid) \subseteq 0..(get_working_size - 1)
        /\ \A e2 \in DOMAIN log :
              /\ (e1.op = "requantize" /\ e2.op = "requantize" /\ e1.call # e2.call) =>
                    RequantWrites(e1) \cap RequantWrites(e2) = {}
              /\ (e1.call # e2.call /\ e1.threadid # e2.threadid) =>
                    ScratchBytes(e1) \cap ScratchBytes(e2) = {}

C2_Witness ==
    \E t1 \in DOMAIN thr, t2 \in DOMAIN thr :
        /\ t1 # t2
        /\ thr[t1].pc = "requantize" /\ thr[t2].pc = "requantize"
        /\ thr[t1].pos > thr[t1].call[1]
        /\ g_arrays.ldc > args.Nsize
        /\ args.Nsize % _n_block # 0

AllReturned == status = "running" /\ pending = {} /\ \A t \in DOMAIN thr : thr[t].pc = "idle"

\* C5: once every sub-range of a partition of the window has been executed,
\* in whatever order and on whatever threads, the output tensor is the one a
\* single execute call over the full window produces.
C5_PartitionIndependent ==
    AllReturned =>
        Cmem = KLoop(EmptyMemories, <<0, get_window_size>>, 0, 0).Cmem

C5_Witness ==
    /\ AllReturned
    /\ get_window_size >= 4
    /\ \E e1 \in DOMAIN log, e2 \in DOMAIN log :
          e1.call # e2.call /\ e1.threadid # e2.threadid
    /\ \E e1 \in DOMAIN log, e2 \in DOMAIN log :
          e1.call # e2.call /\ e1.threadid = e2.threadid

====
